---------------------------- MODULE Spec2Model ----------------------------
(***************************************************************************)
(* AddTableToXClusterTargetTask                                            *)
(* (src/yb/master/xcluster/add_table_to_xcluster_target_task.cc).          *)
(*                                                                         *)
(* One task instance: its fields, the steps it schedules on the            *)
(* multi-step task executor, and the answers of its collaborators          *)
(* (checkpoint client, catalog manager, xCluster manager), which are       *)
(* inputs drawn nondeterministically in each step.                         *)
(***************************************************************************)
EXTENDS Integers, Sequences, FiniteSets, TLC

(***************************************************************************)
(* Bounds of the model.                                                    *)
(***************************************************************************)
\* Physical clock readings (microseconds) range over 1..MaxMicros.
MaxMicros == 2
\* Logical components of a hybrid time range over 0..MaxLogical.
MaxLogical == 1
\* A polling step is answered "not yet" at most MaxPolls times.
MaxPolls == 2
\* The checkpoint result carries 0..MaxEntries table ids / bootstrap ids.
MaxEntries == 2

(***************************************************************************)
(* HybridTime.  The 64-bit representation is (micros << 12) | logical;     *)
(* kMin, kInvalid and kMax are the three special values.  The two top      *)
(* values are scaled to sit right above the modelled physical range: only  *)
(* their order relative to the ordinary values matters to the task.        *)
(***************************************************************************)
FromMicros(micros) == micros * 4096

kMinHybridTimeValue == 0

kMaxHybridTimeValue == FromMicros(MaxMicros + 2)

kInvalidHybridTimeValue == kMaxHybridTimeValue - 1

is_special(v) ==
    \/ v = kMinHybridTimeValue
    \/ v = kMaxHybridTimeValue
    \/ v = kInvalidHybridTimeValue

is_valid(v) == v # kInvalidHybridTimeValue

\* HybridTime::MakeAtLeast: raise lhs to rhs when rhs is valid.
MakeAtLeast(lhs, rhs) ==
    IF is_valid(rhs)
    THEN (IF is_valid(lhs) THEN (IF rhs > lhs THEN rhs ELSE lhs) ELSE rhs)
    ELSE lhs

Micros == 1..MaxMicros

OrdinaryTimes == {FromMicros(m) + l : m \in Micros, l \in 0..MaxLogical}

HybridTimes ==
    OrdinaryTimes \cup {kMinHybridTimeValue, kInvalidHybridTimeValue, kMaxHybridTimeValue}

(***************************************************************************)
(* Step names, as the SCHEDULE macros stringify them.                      *)
(***************************************************************************)
sFirstStep == "FirstStep"
sAddTable == "AddTableToReplicationGroup"
sWaitSetup == "WaitForSetupUniverseReplicationToFinish"
sRefresh == "RefreshAndGetXClusterSafeTime"
sWaitSafeTime == "WaitForXClusterSafeTimeCaughtUp"

(***************************************************************************)
(* client::BootstrapProducerResult: a Result of (producer_table_ids,       *)
(* bootstrap_ids, bootstrap_time); the vectors are kept by their sizes.    *)
(***************************************************************************)
BootstrapResults ==
    [ok : BOOLEAN, nTables : 0..MaxEntries, nIds : 0..MaxEntries, time : HybridTimes]

NoArg == [ok |-> FALSE, nTables |-> 0, nIds |-> 0, time |-> kInvalidHybridTimeValue]

(***************************************************************************)
(* Answers of GetXClusterSafeTimeForNamespace.                             *)
(***************************************************************************)
SafeTimeAnswers ==
    [kind : {"ok"}, time : HybridTimes]
        \cup {[kind |-> "notfound", time |-> kInvalidHybridTimeValue],
              [kind |-> "error", time |-> kInvalidHybridTimeValue]}

(***************************************************************************)
(* Two task instances of one replication group, each created for its own   *)
(* table.  A task is named by its table's id; the checkpoint of table t    *)
(* is issued the bootstrap id BootstrapId(t).                              *)
(***************************************************************************)
Tasks == {1, 2}

BootstrapId(t) == [stream |-> t]

\* Lines 45-54: a task as constructed, FirstStep scheduled.
NewTask ==
    [scheduled |-> <<[step |-> sFirstStep, delay |-> FALSE, arg |-> NoArg]>>,
     inflight |-> FALSE,
     state |-> "running",
     bootstrap_time_ |-> kInvalidHybridTimeValue,
     initial_xcluster_safe_time_ |-> kInvalidHybridTimeValue,
     result |-> <<>>,
     requests |-> <<>>,
     added |-> FALSE]

VARIABLES
    is_db_scoped_,                \* fixed at construction
    remote_client_,               \* TRUE once the remote client is held
    bootstrap_time_,              \* HybridTime field
    initial_xcluster_safe_time_,  \* HybridTime field
    scheduled,                    \* steps handed to the executor, in order
    inflight,                     \* the checkpoint call's callback is pending
    state,                        \* "running" | "complete" | "failed" | "aborted"
    calls,                        \* calls made to each collaborator
    nComplete,                    \* invocations of Complete()
    last,                         \* the step that ran last and how it ended
    now_micros,                   \* last GetCurrentTimeMicros reading (0: none)
    delivered,                    \* <<result>> handed to AddTableToReplicationGroup
    lastRead,                     \* <<answer>> of the last safe-time read
    decide,                       \* what FirstStep was given (should: "none" before)
    alter_result,                 \* outcome of AlterUniverseReplication ("none" before)
    setup_poll,                   \* last answer of IsSetupUniverseReplicationDone
    refresh_result,               \* outcome of RefreshXClusterSafeTimeMap ("none" before)
    notyet,                       \* "not yet" answers given to each polling step
    tasks,                        \* two tasks of one replication group: each one's fields
    pending_add,                  \* the group's pending-add list: <<[table, id]>>
    actor                         \* the task whose step ran last (0: none)

vars ==
    <<is_db_scoped_, remote_client_, bootstrap_time_, initial_xcluster_safe_time_,
      scheduled, inflight, state, calls, nComplete, last, now_micros, delivered,
      lastRead, decide, alter_result, setup_poll, refresh_result, notyet,
      tasks, pending_add, actor>>

\* The variables of the two tasks, which a task taken alone leaves alone.
groupVars == <<tasks, pending_add, actor>>

NoCalls == [bootstrap |-> 0, alter |-> 0, setup |-> 0, refresh |-> 0, safetime |-> 0]

Init ==
    /\ is_db_scoped_ \in BOOLEAN
    /\ remote_client_ = FALSE
    /\ bootstrap_time_ = kInvalidHybridTimeValue
    /\ initial_xcluster_safe_time_ = kInvalidHybridTimeValue
    /\ scheduled = <<[step |-> sFirstStep, delay |-> FALSE, arg |-> NoArg]>>
    /\ inflight = FALSE
    /\ state = "running"
    /\ calls = NoCalls
    /\ nComplete = 0
    /\ last = [step |-> "none", ret |-> "none"]
    /\ now_micros = 0
    /\ delivered = <<>>
    /\ lastRead = <<>>
    /\ decide = [should |-> "none", flag |-> FALSE, abandon |-> FALSE]
    /\ alter_result = "none"
    /\ setup_poll = "none"
    /\ refresh_result = "none"
    /\ notyet = [setup |-> 0, safetime |-> 0]
    /\ tasks = [i \in Tasks |-> NewTask]
    /\ pending_add = <<>>
    /\ actor = 0

(***************************************************************************)
(* The multi-step task executor (the task's base class): the SCHEDULE      *)
(* macros append the bound step to the executor's queue, Complete() ends   *)
(* the task, a step returning a non-OK Status fails it, and a failed       *)
(* CHECK aborts the process.                                               *)
(***************************************************************************)
Entry(step, delay, arg) == [step |-> step, delay |-> delay, arg |-> arg]

ScheduleNextStep(q, step, arg) == Append(q, Entry(step, FALSE, arg))

ScheduleNextStepWithDelay(q, step, arg) == Append(q, Entry(step, TRUE, arg))

\* The executor runs the step at the head of its queue, one at a time.
Runs(step) ==
    /\ state # "aborted"
    /\ scheduled # <<>>
    /\ Head(scheduled).step = step

(***************************************************************************)
(* FirstStep, lines 66-85: what the step decides before the checkpoint     *)
(* call.  should is the Result of ShouldAddTableToReplicationGroup, flag   *)
(* is FLAGS_TEST_xcluster_fail_table_create_during_bootstrap, abandon is   *)
(* what the sync point callback left in abandon_task.                      *)
(***************************************************************************)
\* The fault-injection flag tested before the need to add the table.
FirstStepDecisionFlagFirst(should, flag, abandon) ==
    IF flag THEN "fault"
    ELSE IF should = "error" THEN "error"
    ELSE IF should = "false" THEN "complete"
    ELSE IF abandon THEN "abandon"
    ELSE "checkpoint"

\* The abandon hook consulted before the fault-injection flag.
FirstStepDecisionHookFirst(should, flag, abandon) ==
    IF should = "error" THEN "error"
    ELSE IF should = "false" THEN "complete"
    ELSE IF abandon THEN "abandon"
    ELSE IF flag THEN "fault"
    ELSE "checkpoint"

\* The abandon hook not consulted.
FirstStepDecisionHookIgnored(should, flag, abandon) ==
    IF should = "error" THEN "error"
    ELSE IF should = "false" THEN "complete"
    ELSE IF flag THEN "fault"
    ELSE "checkpoint"

FirstStepDecision(should, flag, abandon) ==
    IF should = "error" THEN "error"
    ELSE IF should = "false" THEN "complete"
    ELSE IF flag THEN "fault"
    ELSE IF abandon THEN "abandon"
    ELSE "checkpoint"

(***************************************************************************)
(* FirstStep.  prep: the VERIFY_RESULTs before the checkpoint call passed  *)
(* (GetOrCreateXClusterRpcTasks, or GetProducerNamespaceId and             *)
(* GetXClusterRemoteClient); started: the asynchronous call was accepted   *)
(* (its Status is what FirstStep returns).                                 *)
(***************************************************************************)
FirstStep ==
    /\ Runs(sFirstStep)
    /\ UNCHANGED groupVars
    /\ \E should \in {"true", "false", "error"}, flag \in BOOLEAN, abandon \in BOOLEAN,
          prep \in BOOLEAN, started \in BOOLEAN :
        LET d == FirstStepDecision(should, flag, abandon)
            out == IF d # "checkpoint" THEN d
                   ELSE IF ~prep THEN "error"
                   ELSE IF started THEN "called"
                   ELSE "call_error"
        IN  /\ scheduled' = Tail(scheduled)
            /\ state' = CASE out \in {"error", "fault", "call_error"} -> "failed"
                          [] out = "complete" -> "complete"
                          [] OTHER -> state
            /\ nComplete' = IF out = "complete" THEN nComplete + 1 ELSE nComplete
            /\ remote_client_' =
                   IF d = "checkpoint" /\ prep /\ is_db_scoped_ THEN TRUE ELSE remote_client_
            /\ calls' = IF out \in {"called", "call_error"}
                        THEN [calls EXCEPT !.bootstrap = @ + 1]
                        ELSE calls
            /\ inflight' = IF out = "called" THEN TRUE ELSE inflight
            /\ last' = [step |-> sFirstStep,
                        ret |-> CASE out \in {"error", "fault", "call_error"} -> "error"
                                  [] out = "complete" -> "ok_complete"
                                  [] out = "abandon" -> "ok_abandoned"
                                  [] OTHER -> "ok_pending"]
            /\ decide' = [should |-> should, flag |-> flag, abandon |-> abandon]
    /\ UNCHANGED <<is_db_scoped_, bootstrap_time_, initial_xcluster_safe_time_,
                   now_micros, delivered, lastRead, alter_result, setup_poll,
                   refresh_result, notyet>>

(***************************************************************************)
(* The callback of lines 87-89, run when the checkpoint call finishes:     *)
(* SCHEDULE(AddTableToReplicationGroup, std::move(bootstrap_result)).      *)
(***************************************************************************)
BootstrapCallback ==
    /\ state # "aborted"
    /\ inflight
    /\ UNCHANGED groupVars
    /\ \E bootstrap_result \in BootstrapResults :
        scheduled' = ScheduleNextStep(scheduled, sAddTable, bootstrap_result)
    /\ inflight' = FALSE
    /\ UNCHANGED <<is_db_scoped_, remote_client_, bootstrap_time_,
                   initial_xcluster_safe_time_, state, calls, nComplete, last,
                   now_micros, delivered, lastRead, decide, alter_result, setup_poll,
                   refresh_result, notyet>>

(***************************************************************************)
(* AddTableToReplicationGroup, lines 113-115: the VERIFY_RESULT_PREPEND    *)
(* of the bootstrap result.                                                *)
(***************************************************************************)
\* The result's status not looked at.
BootstrapSucceededUnchecked(r) == TRUE

BootstrapSucceeded(r) == r.ok

(***************************************************************************)
(* AddTableToReplicationGroup, lines 117-118: the two CHECK_EQs.           *)
(***************************************************************************)
\* Only the table ids counted.
CardinalityOkTablesOnly(r) == r.nTables = 1

CardinalityOk(r) == r.nTables = 1 /\ r.nIds = 1

\* Lines 119-145: the bootstrap time the step goes on with.
\* The result's time kept in both modes.
SelectBootstrapTimeFromResult(db_scoped, result_time, micros) == result_time

SelectBootstrapTime(db_scoped, result_time, micros) ==
    IF db_scoped THEN FromMicros(micros) ELSE result_time

\* Lines 141-145: the SCHECK of the non db scoped branch.
BootstrapTimeAccepted(db_scoped, t) == db_scoped \/ ~is_special(t)

\* Lines 160-164: the outcome of AlterUniverseReplication that ends the step.
\* The response's embedded error not looked at.
AlterFailedRpcOnly(alter) == alter = "rpc_error"

AlterFailed(alter) == alter = "rpc_error" \/ alter = "resp_error"

(***************************************************************************)
(* AddTableToReplicationGroup(bootstrap_result).  micros is the reading of *)
(* GetCurrentTimeMicros, alter the outcome of AlterUniverseReplication.    *)
(***************************************************************************)
AddTableToReplicationGroup ==
    /\ Runs(sAddTable)
    /\ UNCHANGED groupVars
    /\ \E micros \in Micros, alter \in {"ok", "rpc_error", "resp_error"} :
        LET r == Head(scheduled).arg
            t == SelectBootstrapTime(is_db_scoped_, r.time, micros)
            out == IF ~BootstrapSucceeded(r) THEN "error"
                   ELSE IF ~CardinalityOk(r) THEN "check_failed"
                   ELSE IF ~BootstrapTimeAccepted(is_db_scoped_, t) THEN "error"
                   ELSE IF AlterFailed(alter) THEN "alter_error"
                   ELSE "ok"
            assigned == out \in {"alter_error", "ok"}
        IN  /\ delivered' = <<r>>
            /\ now_micros' = IF r.ok /\ CardinalityOk(r) /\ is_db_scoped_
                             THEN micros ELSE now_micros
            /\ bootstrap_time_' = IF assigned THEN t ELSE bootstrap_time_
            /\ calls' = IF assigned THEN [calls EXCEPT !.alter = @ + 1] ELSE calls
            /\ alter_result' = IF assigned THEN alter ELSE alter_result
            /\ scheduled' = IF out = "ok"
                            THEN ScheduleNextStepWithDelay(Tail(scheduled), sWaitSetup, NoArg)
                            ELSE Tail(scheduled)
            /\ state' = CASE out \in {"error", "alter_error"} -> "failed"
                          [] out = "check_failed" -> "aborted"
                          [] OTHER -> state
            /\ last' = [step |-> sAddTable,
                        ret |-> CASE out \in {"error", "alter_error"} -> "error"
                                  [] out = "check_failed" -> "check_failed"
                                  [] OTHER -> "ok_delayed"]
    /\ UNCHANGED <<is_db_scoped_, remote_client_, initial_xcluster_safe_time_,
                   inflight, nComplete, lastRead, decide, setup_poll, refresh_result,
                   notyet>>

(***************************************************************************)
(* WaitForSetupUniverseReplicationToFinish.  poll is the answer of         *)
(* IsSetupUniverseReplicationDone: the call failed, not done, done with    *)
(* an OK status, done with an error status.                                *)
(***************************************************************************)
\* Line 177: the step scheduled again while the setup is not done.
\* The retry going back to the mutation step.
WaitSetupRetryFromAddTable == Entry(sAddTable, TRUE, Head(delivered))

WaitSetupRetry == Entry(sWaitSetup, TRUE, NoArg)

\* Line 174: the poll's answer that keeps the step polling.
\* A failed poll taken for "not done".
WaitSetupNotDoneOrFailed(poll) == poll = "notdone" \/ poll = "error"

WaitSetupNotDone(poll) == poll = "notdone"

\* Lines 181-183: the step scheduled once the setup is done with OK.
\* The refresh step left out.
WaitSetupDoneSkipsRefresh == Entry(sWaitSafeTime, TRUE, NoArg)

\* The refresh step scheduled with the delay.
WaitSetupDoneDelayed == Entry(sRefresh, TRUE, NoArg)

WaitSetupDone == Entry(sRefresh, FALSE, NoArg)

WaitForSetupUniverseReplicationToFinish ==
    /\ Runs(sWaitSetup)
    /\ UNCHANGED groupVars
    /\ \E poll \in {"error", "notdone", "done_ok", "done_error"} :
        LET again == WaitSetupNotDone(poll)
            failed == ~again /\ poll \in {"error", "done_error"}
        IN  /\ again => calls.setup < MaxPolls
            /\ calls' = [calls EXCEPT !.setup = @ + 1]
            /\ setup_poll' = poll
            /\ notyet' = IF again THEN [notyet EXCEPT !.setup = @ + 1] ELSE notyet
            /\ scheduled' = CASE again -> Append(Tail(scheduled), WaitSetupRetry)
                              [] poll = "done_ok" -> Append(Tail(scheduled), WaitSetupDone)
                              [] OTHER -> Tail(scheduled)
            /\ state' = IF failed THEN "failed" ELSE state
            /\ last' = [step |-> sWaitSetup,
                        ret |-> CASE again -> "ok_delayed"
                                  [] poll = "done_ok" -> "ok_scheduled"
                                  [] OTHER -> "error"]
    /\ UNCHANGED <<is_db_scoped_, remote_client_, bootstrap_time_,
                   initial_xcluster_safe_time_, inflight, nComplete, now_micros,
                   delivered, lastRead, decide, alter_result, refresh_result>>

(***************************************************************************)
(* GetXClusterSafeTimeWithoutDdlQueue: a Result of optional HybridTime.    *)
(***************************************************************************)
\* Not-found passed on as the error it is.
GetXClusterSafeTimeNotFoundIsError(ans) ==
    IF ans.kind # "ok"
    THEN [status |-> "error", has |-> FALSE, value |-> kInvalidHybridTimeValue]
    ELSE (IF is_special(ans.time)
          THEN [status |-> "error", has |-> FALSE, value |-> kInvalidHybridTimeValue]
          ELSE [status |-> "ok", has |-> TRUE, value |-> ans.time])

\* The SCHECK of lines 202-204 left out.
GetXClusterSafeTimeNoSpecialCheck(ans) ==
    IF ans.kind # "ok"
    THEN (IF ans.kind # "notfound"
          THEN [status |-> "error", has |-> FALSE, value |-> kInvalidHybridTimeValue]
          ELSE [status |-> "ok", has |-> FALSE, value |-> kInvalidHybridTimeValue])
    ELSE [status |-> "ok", has |-> TRUE, value |-> ans.time]

GetXClusterSafeTimeWithoutDdlQueue(ans) ==
    IF ans.kind # "ok"
    THEN (IF ans.kind # "notfound"
          THEN [status |-> "error", has |-> FALSE, value |-> kInvalidHybridTimeValue]
          ELSE [status |-> "ok", has |-> FALSE, value |-> kInvalidHybridTimeValue])
    ELSE (IF is_special(ans.time)
          THEN [status |-> "error", has |-> FALSE, value |-> kInvalidHybridTimeValue]
          ELSE [status |-> "ok", has |-> TRUE, value |-> ans.time])

\* Lines 219-220: the threshold RefreshAndGetXClusterSafeTime stores.
\* The threshold not raised to the bootstrap time.
InitialSafeTimeNotRaised(read, bootstrap_time) == read

\* The threshold taken from the bootstrap time alone.
InitialSafeTimeBootstrapOnly(read, bootstrap_time) == bootstrap_time

InitialSafeTime(read, bootstrap_time) == MakeAtLeast(read, bootstrap_time)

(***************************************************************************)
(* RefreshAndGetXClusterSafeTime.  refreshed: RefreshXClusterSafeTimeMap   *)
(* returned OK; ans: the answer of GetXClusterSafeTimeForNamespace.        *)
(***************************************************************************)
RefreshAndGetXClusterSafeTime ==
    /\ Runs(sRefresh)
    /\ UNCHANGED groupVars
    /\ \E refreshed \in BOOLEAN, ans \in SafeTimeAnswers :
        LET res == GetXClusterSafeTimeWithoutDdlQueue(ans)
            out == IF ~refreshed THEN "refresh_error"
                   ELSE IF res.status # "ok" THEN "error"
                   ELSE IF ~res.has THEN "complete"
                   ELSE "ok"
        IN  /\ calls' = IF refreshed
                        THEN [calls EXCEPT !.refresh = @ + 1, !.safetime = @ + 1]
                        ELSE [calls EXCEPT !.refresh = @ + 1]
            /\ lastRead' = IF refreshed THEN <<ans>> ELSE lastRead
            /\ refresh_result' = IF refreshed THEN "ok" ELSE "error"
            /\ initial_xcluster_safe_time_' =
                   IF out = "ok" THEN InitialSafeTime(res.value, bootstrap_time_)
                   ELSE initial_xcluster_safe_time_
            /\ scheduled' = IF out = "ok"
                            THEN ScheduleNextStepWithDelay(Tail(scheduled), sWaitSafeTime, NoArg)
                            ELSE Tail(scheduled)
            /\ state' = CASE out \in {"refresh_error", "error"} -> "failed"
                          [] out = "complete" -> "complete"
                          [] OTHER -> state
            /\ nComplete' = IF out = "complete" THEN nComplete + 1 ELSE nComplete
            /\ last' = [step |-> sRefresh,
                        ret |-> CASE out \in {"refresh_error", "error"} -> "error"
                                  [] out = "complete" -> "ok_complete"
                                  [] OTHER -> "ok_delayed"]
    /\ UNCHANGED <<is_db_scoped_, remote_client_, bootstrap_time_, inflight,
                   now_micros, delivered, decide, alter_result, setup_poll, notyet>>

(***************************************************************************)
(* WaitForXClusterSafeTimeCaughtUp.                                        *)
(***************************************************************************)
\* Line 236: the safe time has not passed the threshold.
\* A strict comparison.
NotCaughtUpStrict(ht, initial) == ht < initial

NotCaughtUp(ht, initial) == ht <= initial

\* Lines 236-248: the step reaches the Complete() of line 247 only when the
\* branch of line 236, which returns at line 241, was not taken.
\* The return of line 241 left out: the step falls through to Complete().
WaitCompletesFallThrough(ht, initial) == TRUE

\* The Complete() of line 247 left out: a value above the threshold ends
\* the polling without completing the task.
WaitCompletesNever(ht, initial) == FALSE

WaitCompletes(ht, initial) == ~NotCaughtUp(ht, initial)

\* Lines 228-249 never assign initial_xcluster_safe_time_: the threshold a
\* poll that read ht leaves behind.
\* The threshold following the value read.
ThresholdAfterPollTracksRead(ht, initial) == ht

ThresholdAfterPoll(ht, initial) == initial

WaitForXClusterSafeTimeCaughtUp ==
    /\ Runs(sWaitSafeTime)
    /\ UNCHANGED groupVars
    /\ \E ans \in SafeTimeAnswers :
        LET res == GetXClusterSafeTimeWithoutDdlQueue(ans)
            again == res.status = "ok" /\ res.has
                        /\ NotCaughtUp(res.value, initial_xcluster_safe_time_)
            done == \/ res.status = "ok" /\ ~res.has
                    \/ res.status = "ok" /\ res.has
                          /\ WaitCompletes(res.value, initial_xcluster_safe_time_)
        IN  /\ again => calls.safetime <= MaxPolls
            /\ calls' = [calls EXCEPT !.safetime = @ + 1]
            /\ lastRead' = <<ans>>
            /\ notyet' = IF again THEN [notyet EXCEPT !.safetime = @ + 1] ELSE notyet
            /\ initial_xcluster_safe_time_' =
                   IF res.status = "ok" /\ res.has
                   THEN ThresholdAfterPoll(res.value, initial_xcluster_safe_time_)
                   ELSE initial_xcluster_safe_time_
            /\ scheduled' = IF again
                            THEN ScheduleNextStepWithDelay(Tail(scheduled), sWaitSafeTime, NoArg)
                            ELSE Tail(scheduled)
            /\ state' = CASE res.status # "ok" -> "failed"
                          [] done -> "complete"
                          [] OTHER -> state
            /\ nComplete' = IF done THEN nComplete + 1 ELSE nComplete
            /\ last' = [step |-> sWaitSafeTime,
                        ret |-> CASE res.status # "ok" -> "error"
                                  [] done -> "ok_complete"
                                  [] OTHER -> "ok_delayed"]
    /\ UNCHANGED <<is_db_scoped_, remote_client_, bootstrap_time_, inflight,
                   now_micros, delivered, decide, alter_result, setup_poll,
                   refresh_result>>

Next ==
    \/ FirstStep
    \/ BootstrapCallback
    \/ AddTableToReplicationGroup
    \/ WaitForSetupUniverseReplicationToFinish
    \/ RefreshAndGetXClusterSafeTime
    \/ WaitForXClusterSafeTimeCaughtUp

Spec == Init /\ [][Next]_vars

(***************************************************************************)
(* Abbreviations used by the properties.                                   *)
(***************************************************************************)
\* The last safe-time read gave the step a value (a valid HybridTime).
ReadValue ==
    /\ lastRead # <<>>
    /\ lastRead[1].kind = "ok"
    /\ ~is_special(lastRead[1].time)

ReadNotFound == lastRead # <<>> /\ lastRead[1].kind = "notfound"

\* The checkpoint time of the spec: the result's time for an explicit table
\* list, the synthesized now-time for a whole database.
CheckpointTime ==
    IF is_db_scoped_ THEN FromMicros(now_micros) ELSE delivered[1].time

NothingScheduled == scheduled = <<>> /\ ~inflight

\* The result handed to AddTableToReplicationGroup holds one id of each kind.
OneEntryEach == delivered[1].nTables = 1 /\ delivered[1].nIds = 1

Fatal == state \in {"failed", "aborted"}

(***************************************************************************)
(* C1  Safe-time gating: once the membership mutation was issued, the task *)
(* is complete with the namespace still replicated (no not-found answer)   *)
(* only when WaitForXClusterSafeTimeCaughtUp has read a safe time strictly *)
(* greater than the checkpoint time.                                       *)
(***************************************************************************)
C1_SafeTimeGating ==
    (state = "complete" /\ calls.alter >= 1 /\ ~ReadNotFound) =>
        /\ last.step = sWaitSafeTime
        /\ ReadValue
        /\ lastRead[1].time > CheckpointTime

\* Complete after a re-poll, with the threshold being the checkpoint time.
C1_Witness ==
    /\ state = "complete"
    /\ calls.alter = 1
    /\ calls.safetime >= 3
    /\ ReadValue
    /\ initial_xcluster_safe_time_ = CheckpointTime

(***************************************************************************)
(* C2  Monotonic safe-time wait: WaitForXClusterSafeTimeCaughtUp completes *)
(* on a value read only when it is strictly greater than the threshold;    *)
(* on a value equal to or less than the threshold it does not complete     *)
(* and schedules itself again with the delay.                              *)
(***************************************************************************)
C2_MonotonicWait ==
    (last.step = sWaitSafeTime /\ ReadValue) =>
        /\ state = "complete" => lastRead[1].time > initial_xcluster_safe_time_
        /\ lastRead[1].time <= initial_xcluster_safe_time_ =>
              /\ state = "running"
              /\ nComplete = 0
              /\ last.ret = "ok_delayed"
              /\ scheduled = <<Entry(sWaitSafeTime, TRUE, NoArg)>>

\* A read equal to the threshold: the step is scheduled again.
C2_Witness ==
    /\ last.step = sWaitSafeTime
    /\ ReadValue
    /\ lastRead[1].time = initial_xcluster_safe_time_
    /\ scheduled = <<Entry(sWaitSafeTime, TRUE, NoArg)>>

(***************************************************************************)
(* C3  At-most-one mutation: AlterUniverseReplication is called at most    *)
(* once, and the polling steps never schedule AddTableToReplicationGroup.  *)
(***************************************************************************)
C3_AtMostOneMutation ==
    /\ calls.alter <= 1
    /\ last.step \in {sWaitSetup, sRefresh, sWaitSafeTime} =>
          \A i \in 1..Len(scheduled) : scheduled[i].step # sAddTable

\* Both polling loops have gone round and the mutation was issued once.
C3_Witness ==
    /\ calls.alter = 1
    /\ calls.setup >= 2
    /\ calls.safetime >= 3
    /\ last.step = sWaitSafeTime

(***************************************************************************)
(* C4  Idempotence of Decide: when ShouldAddTableToReplicationGroup        *)
(* answers false, FirstStep completes the task, no collaborator is called  *)
(* and nothing is scheduled.                                               *)
(***************************************************************************)
C4_DecideIdempotent ==
    decide.should = "false" =>
        /\ state = "complete"
        /\ nComplete = 1
        /\ last = [step |-> sFirstStep, ret |-> "ok_complete"]
        /\ calls = NoCalls
        /\ NothingScheduled

\* The table needs no adding while the fault-injection flag is set.
C4_Witness ==
    /\ decide.should = "false"
    /\ decide.flag
    /\ state = "complete"

(***************************************************************************)
(* C5  Checkpoint-time selection: db scoped, bootstrap_time_ is the        *)
(* synthesized current time whatever time the result carries; otherwise    *)
(* it is the result's time, and a special time there fails the task        *)
(* before the mutation.                                                    *)
(***************************************************************************)
C5_CheckpointTimeSelection ==
    (delivered # <<>> /\ delivered[1].ok /\ OneEntryEach) =>
        IF is_db_scoped_
        THEN /\ calls.alter = 1
             /\ now_micros \in Micros
             /\ bootstrap_time_ = FromMicros(now_micros)
        ELSE IF is_special(delivered[1].time)
        THEN /\ state = "failed"
             /\ calls.alter = 0
             /\ bootstrap_time_ = kInvalidHybridTimeValue
        ELSE /\ calls.alter = 1
             /\ bootstrap_time_ = delivered[1].time

\* Db scoped, the result carrying the invalid time.
C5_Witness ==
    /\ is_db_scoped_
    /\ delivered # <<>>
    /\ delivered[1].time = kInvalidHybridTimeValue
    /\ calls.alter = 1
    /\ bootstrap_time_ = FromMicros(now_micros)

(***************************************************************************)
(* C6  Cardinality invariant: a checkpoint result that does not carry      *)
(* exactly one table id and one bootstrap id ends the task fatally, with   *)
(* no membership mutation and nothing scheduled.                           *)
(***************************************************************************)
C6_Cardinality ==
    (delivered # <<>> /\ ~OneEntryEach) =>
        /\ Fatal
        /\ delivered[1].ok => state = "aborted"
        /\ calls.alter = 0
        /\ bootstrap_time_ = kInvalidHybridTimeValue
        /\ nComplete = 0
        /\ NothingScheduled

\* One table id, no bootstrap id.
C6_Witness ==
    /\ delivered # <<>>
    /\ delivered[1].ok
    /\ delivered[1].nTables = 1
    /\ delivered[1].nIds # 1
    /\ state = "aborted"

(***************************************************************************)
(* C7  Not-found short-circuit: a not-found answer read by                 *)
(* RefreshAndGetXClusterSafeTime or WaitForXClusterSafeTimeCaughtUp        *)
(* completes the task with OK and nothing scheduled; in the former the     *)
(* threshold is left unset.                                                *)
(***************************************************************************)
C7_NotFoundShortCircuit ==
    ReadNotFound =>
        /\ last.step \in {sRefresh, sWaitSafeTime}
        /\ last.ret = "ok_complete"
        /\ state = "complete"
        /\ nComplete = 1
        /\ NothingScheduled
        /\ last.step = sRefresh => initial_xcluster_safe_time_ = kInvalidHybridTimeValue

\* Not-found at the refresh step.
C7_Witness ==
    /\ ReadNotFound
    /\ last.step = sRefresh
    /\ state = "complete"

(***************************************************************************)
(* C8  Mutation failure is fatal: a transport failure of                   *)
(* AlterUniverseReplication, or an error in its response, fails the task   *)
(* in AddTableToReplicationGroup; nothing is scheduled, polled or          *)
(* completed afterwards.                                                   *)
(***************************************************************************)
C8_MutationFailureFatal ==
    alter_result \in {"rpc_error", "resp_error"} =>
        /\ state = "failed"
        /\ last = [step |-> sAddTable, ret |-> "error"]
        /\ NothingScheduled
        /\ calls.setup = 0
        /\ calls.refresh = 0
        /\ calls.safetime = 0
        /\ nComplete = 0

\* The response carried an error.
C8_Witness ==
    /\ alter_result = "resp_error"
    /\ calls.alter = 1
    /\ state = "failed"

(***************************************************************************)
(* C9  Fault injection at Decide, as stated: whenever the fault-injection  *)
(* flag is set when FirstStep runs, the task fails with no remote call     *)
(* and is not completed.                                                   *)
(***************************************************************************)
C9_FlagAlwaysFails ==
    (decide.should # "none" /\ decide.flag) =>
        /\ state = "failed"
        /\ nComplete = 0
        /\ calls = NoCalls
        /\ NothingScheduled

(***************************************************************************)
(* C9 (amended)  When the table needs adding and the fault-injection flag  *)
(* is set, FirstStep fails the task with no remote call, nothing           *)
(* scheduled and no completion; when the table needs no adding the flag    *)
(* is not looked at and the task completes.                                *)
(***************************************************************************)
C9_FlagFailsWhenAddNeeded ==
    /\ (decide.should = "true" /\ decide.flag) =>
          /\ state = "failed"
          /\ last = [step |-> sFirstStep, ret |-> "error"]
          /\ nComplete = 0
          /\ calls = NoCalls
          /\ NothingScheduled
    /\ (decide.should = "false" /\ decide.flag) => state = "complete"

\* The flag set together with the abandon hook, the table needing adding.
C9_Witness ==
    /\ decide.should = "true"
    /\ decide.flag
    /\ decide.abandon
    /\ state = "failed"

(***************************************************************************)
(* C10  Single completion: Complete() is invoked at most once; the step    *)
(* that invoked it is the last step that ran and left nothing scheduled;   *)
(* a step that returned an error (or failed a CHECK) neither completed     *)
(* the task nor left anything scheduled.                                   *)
(***************************************************************************)
C10_SingleCompletion ==
    /\ nComplete <= 1
    /\ state = "complete" <=> nComplete = 1
    /\ nComplete = 1 => last.ret = "ok_complete"
    /\ last.ret = "ok_complete" => state = "complete" /\ NothingScheduled
    /\ last.ret \in {"error", "check_failed"} =>
          /\ Fatal
          /\ nComplete = 0
          /\ NothingScheduled

\* Completed by the last polling step after it had been scheduled again.
C10_Witness ==
    /\ state = "complete"
    /\ nComplete = 1
    /\ last.step = sWaitSafeTime
    /\ ReadValue
    /\ calls.safetime >= 3

(***************************************************************************)
(* Abbreviations for the properties of transitions.                        *)
(***************************************************************************)
\* A step ran in this transition (the checkpoint callback is not a step).
StepRan == last' # last \/ calls' # calls

RetryEntry(step) == <<Entry(step, TRUE, NoArg)>>

\* The step that ran last was answered "not yet".
NotYetAnswered ==
    \/ last.step = sWaitSetup /\ setup_poll = "notdone"
    \/ /\ last.step = sWaitSafeTime
       /\ ReadValue
       /\ lastRead[1].time <= initial_xcluster_safe_time_

(***************************************************************************)
(* C11  Step ordering: a step runs only right after its predecessor in     *)
(* the order FirstStep (decide, checkpoint call), AddTableToReplication-   *)
(* Group, WaitForSetupUniverseReplicationToFinish, RefreshAndGetXCluster-  *)
(* SafeTime, WaitForXClusterSafeTimeCaughtUp returned OK and handed it     *)
(* on, or as a polling step running itself again.                          *)
(***************************************************************************)
C11_StepOrdering ==
    [][StepRan =>
        \/ last.step = "none" /\ last'.step = sFirstStep
        \/ /\ last = [step |-> sFirstStep, ret |-> "ok_pending"]
           /\ calls.bootstrap = 1
           /\ last'.step = sAddTable
        \/ last = [step |-> sAddTable, ret |-> "ok_delayed"] /\ last'.step = sWaitSetup
        \/ last = [step |-> sWaitSetup, ret |-> "ok_delayed"] /\ last'.step = sWaitSetup
        \/ last = [step |-> sWaitSetup, ret |-> "ok_scheduled"] /\ last'.step = sRefresh
        \/ last = [step |-> sRefresh, ret |-> "ok_delayed"] /\ last'.step = sWaitSafeTime
        \/ last = [step |-> sWaitSafeTime, ret |-> "ok_delayed"]
              /\ last'.step = sWaitSafeTime
    ]_vars

\* The last step has run after each polling step went round.
C11_Witness ==
    /\ last.step = sWaitSafeTime
    /\ calls.bootstrap = 1
    /\ calls.alter = 1
    /\ calls.setup = MaxPolls + 1
    /\ calls.refresh = 1
    /\ notyet.safetime >= 1

Max(a, b) == IF a >= b THEN a ELSE b

(***************************************************************************)
(* C12  Threshold invariant: initial_xcluster_safe_time_ >=                *)
(* bootstrap_time_ in every state, and RefreshAndGetXClusterSafeTime,      *)
(* whenever it reads a safe-time value, stores the maximum of that value   *)
(* and bootstrap_time_; nothing else changes the threshold.                *)
(***************************************************************************)
C12_Threshold ==
    /\ [](initial_xcluster_safe_time_ >= bootstrap_time_)
    /\ [][/\ (StepRan /\ last'.step = sRefresh /\ refresh_result' = "ok" /\ ReadValue') =>
                /\ initial_xcluster_safe_time_' = Max(lastRead'[1].time, bootstrap_time_)
                /\ initial_xcluster_safe_time_' >= lastRead'[1].time
          /\ initial_xcluster_safe_time_' # initial_xcluster_safe_time_ =>
                last'.step = sRefresh /\ ReadValue'
       ]_vars

\* The value read lies below the bootstrap time: the threshold is raised.
C12_Witness ==
    /\ last.step = sRefresh
    /\ ReadValue
    /\ lastRead[1].time < bootstrap_time_
    /\ initial_xcluster_safe_time_ = bootstrap_time_
    /\ scheduled = RetryEntry(sWaitSafeTime)

(***************************************************************************)
(* C13  WaitForSetupUniverseReplicationToFinish polling: each run polls    *)
(* once; "not done" schedules the same step again with the delay, however  *)
(* many polls came before, and neither completes nor fails the task; a     *)
(* failed poll or a setup done with an error fails the task; a setup done  *)
(* with OK schedules RefreshAndGetXClusterSafeTime without delay.  The     *)
(* step never calls AlterUniverseReplication.                              *)
(***************************************************************************)
C13_SetupPolling ==
    /\ [](last.step = sWaitSetup =>
            /\ nComplete = 0
            /\ calls.alter = 1
            /\ calls.setup = notyet.setup + (IF setup_poll = "notdone" THEN 0 ELSE 1)
            /\ setup_poll = "notdone" =>
                  /\ state = "running"
                  /\ last.ret = "ok_delayed"
                  /\ scheduled = RetryEntry(sWaitSetup)
            /\ setup_poll = "done_ok" =>
                  /\ state = "running"
                  /\ last.ret = "ok_scheduled"
                  /\ scheduled = <<Entry(sRefresh, FALSE, NoArg)>>
            /\ setup_poll \in {"error", "done_error"} =>
                  /\ state = "failed"
                  /\ last.ret = "error"
                  /\ NothingScheduled)
    /\ [][(StepRan /\ last'.step = sWaitSetup) =>
            /\ calls'.setup = calls.setup + 1
            /\ calls'.alter = calls.alter
            /\ setup_poll' # "none"
       ]_vars

\* Not done again after MaxPolls polls: the step is still scheduled again.
C13_Witness ==
    /\ last.step = sWaitSetup
    /\ setup_poll = "notdone"
    /\ calls.setup = MaxPolls
    /\ scheduled = RetryEntry(sWaitSetup)

(***************************************************************************)
(* C14  Retry discipline: a step runs again only as one of the polling     *)
(* steps, right after a run of it that was answered "not yet" and          *)
(* returned OK; once a step has returned an error (or failed a CHECK)      *)
(* nothing is scheduled and no step runs any more.                         *)
(***************************************************************************)
C14_RetryDiscipline ==
    /\ [](last.ret \in {"error", "check_failed"} => Fatal /\ NothingScheduled)
    /\ [][StepRan =>
            /\ last.ret \notin {"error", "check_failed"}
            /\ last'.step = last.step =>
                  /\ last.step \in {sWaitSetup, sWaitSafeTime}
                  /\ last.ret = "ok_delayed"
                  /\ NotYetAnswered
       ]_vars

\* Both polling loops went round and the last poll then failed.
C14_Witness ==
    /\ notyet.setup >= 1
    /\ notyet.safetime >= 1
    /\ last = [step |-> sWaitSafeTime, ret |-> "error"]
    /\ state = "failed"

(***************************************************************************)
(* C15  Abandon hook: when the table needs adding, the fault-injection     *)
(* flag is unset and the hook asks to abandon, FirstStep returns OK        *)
(* without completing and without scheduling; no collaborator is ever      *)
(* called, and the task stays as it is: running, never complete, never     *)
(* failed, with no step left to run.                                       *)
(***************************************************************************)
C15_AbandonHook ==
    (decide.should = "true" /\ ~decide.flag /\ decide.abandon) =>
        /\ last = [step |-> sFirstStep, ret |-> "ok_abandoned"]
        /\ state = "running"
        /\ nComplete = 0
        /\ calls = NoCalls
        /\ NothingScheduled
        /\ ~remote_client_
        /\ ~ENABLED Next

\* The hook fired in a db scoped group.
C15_Witness ==
    /\ decide = [should |-> "true", flag |-> FALSE, abandon |-> TRUE]
    /\ is_db_scoped_
    /\ state = "running"
    /\ scheduled = <<>>

(***************************************************************************)
(* C16  Immutable progress fields: bootstrap_time_ is assigned at most     *)
(* once (by the one run of AddTableToReplicationGroup that reaches the     *)
(* mutation) and initial_xcluster_safe_time_ at most once (by the one run  *)
(* of RefreshAndGetXClusterSafeTime); neither changes afterwards, and no   *)
(* run of WaitForXClusterSafeTimeCaughtUp changes the threshold.           *)
(***************************************************************************)
C16_ImmutableFields ==
    /\ [](calls.alter <= 1 /\ calls.refresh <= 1)
    /\ [][/\ bootstrap_time_' # bootstrap_time_ =>
                /\ bootstrap_time_ = kInvalidHybridTimeValue
                /\ calls.alter = 0
                /\ calls'.alter = 1
                /\ last'.step = sAddTable
          /\ initial_xcluster_safe_time_' # initial_xcluster_safe_time_ =>
                /\ initial_xcluster_safe_time_ = kInvalidHybridTimeValue
                /\ calls.refresh = 0
                /\ last'.step = sRefresh
          /\ (StepRan /\ last'.step = sWaitSafeTime) =>
                /\ initial_xcluster_safe_time_' = initial_xcluster_safe_time_
                /\ bootstrap_time_' = bootstrap_time_
       ]_vars

\* Polled again twice with values other than the threshold.
C16_Witness ==
    /\ last.step = sWaitSafeTime
    /\ notyet.safetime >= 2
    /\ ReadValue
    /\ lastRead[1].time # initial_xcluster_safe_time_
    /\ initial_xcluster_safe_time_ > bootstrap_time_

(***************************************************************************)
(* C17  Checkpoint failure: AlterUniverseReplication is called only after  *)
(* the checkpoint callback delivered a successful result; when FirstStep   *)
(* returns an error (the checkpoint call could not be started, among       *)
(* others) or the delivered result is a failure, the task fails with       *)
(* bootstrap_time_ unset, no mutation and nothing scheduled; the           *)
(* checkpoint call is made at most once.                                   *)
(***************************************************************************)
C17_CheckpointFailure ==
    /\ calls.bootstrap <= 1
    /\ calls.alter >= 1 =>
          /\ calls.bootstrap = 1
          /\ delivered # <<>>
          /\ delivered[1].ok
    /\ last = [step |-> sFirstStep, ret |-> "error"] =>
          /\ state = "failed"
          /\ delivered = <<>>
          /\ bootstrap_time_ = kInvalidHybridTimeValue
          /\ calls.alter = 0
          /\ NothingScheduled
    /\ (delivered # <<>> /\ ~delivered[1].ok) =>
          /\ last = [step |-> sAddTable, ret |-> "error"]
          /\ state = "failed"
          /\ bootstrap_time_ = kInvalidHybridTimeValue
          /\ calls.alter = 0
          /\ NothingScheduled

\* A failed result that would otherwise pass every check of the step.
C17_Witness ==
    /\ delivered # <<>>
    /\ ~delivered[1].ok
    /\ OneEntryEach
    /\ ~is_special(delivered[1].time)
    /\ state = "failed"
    /\ calls.bootstrap = 1

\* The last safe-time read was an error other than not-found, or a special time.
ReadInvalid ==
    /\ lastRead # <<>>
    /\ \/ lastRead[1].kind = "error"
       \/ lastRead[1].kind = "ok" /\ is_special(lastRead[1].time)

(***************************************************************************)
(* C20  Invalid safe time: in RefreshAndGetXClusterSafeTime and in         *)
(* WaitForXClusterSafeTimeCaughtUp a special timestamp, or an error other  *)
(* than not-found, fails the task: no completion, no further poll; so      *)
(* does a failed forced refresh, after which no read is made; in the       *)
(* refresh step the threshold then stays unset.  A read is made only       *)
(* after the forced refresh returned OK.                                   *)
(***************************************************************************)
C20_InvalidSafeTime ==
    /\ refresh_result = "error" =>
          /\ last = [step |-> sRefresh, ret |-> "error"]
          /\ state = "failed"
          /\ nComplete = 0
          /\ NothingScheduled
          /\ lastRead = <<>>
          /\ calls.safetime = 0
          /\ initial_xcluster_safe_time_ = kInvalidHybridTimeValue
    /\ lastRead # <<>> => refresh_result = "ok" /\ calls.refresh = 1
    /\ ReadInvalid =>
          /\ last.step \in {sRefresh, sWaitSafeTime}
          /\ last.ret = "error"
          /\ state = "failed"
          /\ nComplete = 0
          /\ NothingScheduled
          /\ last.step = sRefresh =>
                initial_xcluster_safe_time_ = kInvalidHybridTimeValue

\* The minimum time, which lies below the threshold, read while waiting.
C20_Witness ==
    /\ last.step = sWaitSafeTime
    /\ lastRead # <<>>
    /\ lastRead[1] = [kind |-> "ok", time |-> kMinHybridTimeValue]
    /\ notyet.safetime >= 1
    /\ state = "failed"

(***************************************************************************)
(* The task under a scheduler that runs every scheduled step and an        *)
(* environment that answers as a successful addition needs: the table      *)
(* needs adding, the checkpoint call is accepted and its callback hands    *)
(* over a successful result with one table id and one bootstrap id (of a   *)
(* valid time where the time is used), AlterUniverseReplication succeeds   *)
(* IsSetupUniverseReplicationDone answers "not done" or "done, OK", and    *)
(* the safe time read is not-found or a valid time.  The test hooks of     *)
(* FirstStep are not set.  The bounds on the "not yet" answers in the      *)
(* polling steps make both polls eventually get another answer.  The       *)
(* forced refresh of RefreshAndGetXClusterSafeTime stays unconstrained.    *)
(***************************************************************************)
ValidSingleEntry(r) ==
    /\ r.ok
    /\ r.nTables = 1
    /\ r.nIds = 1
    /\ is_db_scoped_ \/ ~is_special(r.time)

Assumed ==
    /\ decide.should \in {"none", "true"}
    /\ ~decide.flag
    /\ ~decide.abandon
    /\ last.step = sFirstStep => last.ret = "ok_pending"
    /\ \A i \in 1..Len(scheduled) :
          scheduled[i].step = sAddTable => ValidSingleEntry(scheduled[i].arg)
    /\ alter_result \in {"none", "ok"}
    /\ setup_poll \in {"none", "notdone", "done_ok"}
    /\ ~ReadInvalid

NextProgress == Next /\ Assumed'

SpecProgress == Init /\ [][NextProgress]_vars /\ WF_vars(NextProgress)

\* What ends the task without completion although every assumption of
\* SpecProgress holds: the forced refresh of line 212 has failed.
Excused == refresh_result = "error"

\* Each step has run as often as a successful addition goes through it.
RunsAsScenarioB ==
    /\ nComplete = 1
    /\ calls.bootstrap = 1
    /\ calls.alter = 1
    /\ calls.setup = notyet.setup + 1
    /\ calls.refresh = 1
    /\ last.step \in {sRefresh, sWaitSafeTime}
    /\ last.step = sRefresh => calls.safetime = 1 /\ ReadNotFound
    /\ last.step = sWaitSafeTime => calls.safetime - 1 = notyet.safetime + 1

Other(i) == CHOOSE j \in Tasks : j # i

\* What the checkpoint call of lines 91-106, made for the task's own table,
\* can hand to the callback: a status, up to MaxEntries table ids and
\* bootstrap ids (the own table's first), and the bootstrap time.
TaskBootstrapResults(i) ==
    [ok : BOOLEAN,
     tables : {<<>>, <<i>>, <<i, Other(i)>>},
     ids : {<<>>, <<BootstrapId(i)>>, <<BootstrapId(i), BootstrapId(Other(i))>>},
     time : {FromMicros(1), FromMicros(MaxMicros), kInvalidHybridTimeValue}]

\* The result as the single task's operators read it.
Counted(r) ==
    [ok |-> r.ok, nTables |-> Len(r.tables), nIds |-> Len(r.ids), time |-> r.time]

\* Lines 149-159: the request of AddTableToReplicationGroup.
\* The bootstrap id left out of the request.
AlterRequestNoBootstrapId(r) == [tables |-> <<r.tables[1]>>, ids |-> <<>>]

AlterRequest(r) == [tables |-> <<r.tables[1]>>, ids |-> <<r.ids[1]>>]

\* The Membership Mutator: a successful AlterUniverseReplication appends the
\* request's tables, each with its bootstrap id, to the pending-add list in
\* one atomic step.
AlterUniverseReplication(list, req) ==
    list \o [k \in 1..Len(req.tables) |->
                [table |-> req.tables[k],
                 id |-> IF k <= Len(req.ids) THEN <<req.ids[k]>> ELSE <<>>]]

\* The executor runs the step at the head of task i's queue; a failed CHECK
\* in either task has ended the process.
TaskRuns(i, step) ==
    /\ \A j \in Tasks : tasks[j].state # "aborted"
    /\ tasks[i].scheduled # <<>>
    /\ Head(tasks[i].scheduled).step = step

\* Task i becomes t; nothing else of the two tasks changes but the actor.
TaskBecomes(i, t) ==
    /\ tasks' = [tasks EXCEPT ![i] = t]
    /\ actor' = i

singleVars ==
    <<is_db_scoped_, remote_client_, bootstrap_time_, initial_xcluster_safe_time_,
      scheduled, inflight, state, calls, nComplete, last, now_micros, delivered,
      lastRead, decide, alter_result, setup_poll, refresh_result, notyet>>

TaskFirstStep(i) ==
    /\ TaskRuns(i, sFirstStep)
    /\ \E should \in {"true", "false", "error"}, flag \in BOOLEAN, abandon \in BOOLEAN,
          prep \in BOOLEAN, started \in BOOLEAN :
        LET t == tasks[i]
            d == FirstStepDecision(should, flag, abandon)
            out == IF d # "checkpoint" THEN d
                   ELSE IF ~prep THEN "error"
                   ELSE IF started THEN "called"
                   ELSE "call_error"
        IN  TaskBecomes(i,
              [t EXCEPT
                 !.scheduled = Tail(t.scheduled),
                 !.inflight = IF out = "called" THEN TRUE ELSE @,
                 !.state = CASE out \in {"error", "fault", "call_error"} -> "failed"
                             [] out = "complete" -> "complete"
                             [] OTHER -> @])
    /\ UNCHANGED <<pending_add, singleVars>>

TaskBootstrapCallback(i) ==
    /\ \A j \in Tasks : tasks[j].state # "aborted"
    /\ tasks[i].inflight
    /\ \E bootstrap_result \in TaskBootstrapResults(i) :
        TaskBecomes(i,
          [tasks[i] EXCEPT
             !.scheduled = ScheduleNextStep(@, sAddTable, bootstrap_result),
             !.inflight = FALSE])
    /\ UNCHANGED <<pending_add, singleVars>>

TaskAddTableToReplicationGroup(i) ==
    /\ TaskRuns(i, sAddTable)
    /\ \E micros \in Micros, alter \in {"ok", "rpc_error", "resp_error"} :
        LET t == tasks[i]
            r == Head(t.scheduled).arg
            c == Counted(r)
            bt == SelectBootstrapTime(is_db_scoped_, r.time, micros)
            out == IF ~BootstrapSucceeded(c) THEN "error"
                   ELSE IF ~CardinalityOk(c) THEN "check_failed"
                   ELSE IF ~BootstrapTimeAccepted(is_db_scoped_, bt) THEN "error"
                   ELSE IF AlterFailed(alter) THEN "alter_error"
                   ELSE "ok"
            assigned == out \in {"alter_error", "ok"}
        IN  /\ TaskBecomes(i,
                 [t EXCEPT
                    !.result = <<r>>,
                    !.bootstrap_time_ = IF assigned THEN bt ELSE @,
                    !.requests = IF assigned THEN Append(@, AlterRequest(r)) ELSE @,
                    !.added = IF out = "ok" THEN TRUE ELSE @,
                    !.scheduled =
                        IF out = "ok"
                        THEN ScheduleNextStepWithDelay(Tail(t.scheduled), sWaitSetup, NoArg)
                        ELSE Tail(t.scheduled),
                    !.state = CASE out \in {"error", "alter_error"} -> "failed"
                                [] out = "check_failed" -> "aborted"
                                [] OTHER -> @])
            /\ pending_add' = IF out = "ok"
                              THEN AlterUniverseReplication(pending_add, AlterRequest(r))
                              ELSE pending_add
    /\ UNCHANGED singleVars

TaskWaitForSetupUniverseReplicationToFinish(i) ==
    /\ TaskRuns(i, sWaitSetup)
    /\ \E poll \in {"error", "notdone", "done_ok", "done_error"} :
        LET t == tasks[i]
            again == WaitSetupNotDone(poll)
        IN  TaskBecomes(i,
              [t EXCEPT
                 !.scheduled = CASE again -> Append(Tail(t.scheduled), WaitSetupRetry)
                                 [] poll = "done_ok" -> Append(Tail(t.scheduled), WaitSetupDone)
                                 [] OTHER -> Tail(t.scheduled),
                 !.state = IF ~again /\ poll \in {"error", "done_error"}
                           THEN "failed" ELSE @])
    /\ UNCHANGED <<pending_add, singleVars>>

TaskRefreshAndGetXClusterSafeTime(i) ==
    /\ TaskRuns(i, sRefresh)
    /\ \E refreshed \in BOOLEAN, ans \in SafeTimeAnswers :
        LET t == tasks[i]
            res == GetXClusterSafeTimeWithoutDdlQueue(ans)
            out == IF ~refreshed THEN "refresh_error"
                   ELSE IF res.status # "ok" THEN "error"
                   ELSE IF ~res.has THEN "complete"
                   ELSE "ok"
        IN  TaskBecomes(i,
              [t EXCEPT
                 !.initial_xcluster_safe_time_ =
                     IF out = "ok" THEN InitialSafeTime(res.value, t.bootstrap_time_) ELSE @,
                 !.scheduled =
                     IF out = "ok"
                     THEN ScheduleNextStepWithDelay(Tail(t.scheduled), sWaitSafeTime, NoArg)
                     ELSE Tail(t.scheduled),
                 !.state = CASE out \in {"refresh_error", "error"} -> "failed"
                             [] out = "complete" -> "complete"
                             [] OTHER -> @])
    /\ UNCHANGED <<pending_add, singleVars>>

TaskWaitForXClusterSafeTimeCaughtUp(i) ==
    /\ TaskRuns(i, sWaitSafeTime)
    /\ \E ans \in SafeTimeAnswers :
        LET t == tasks[i]
            res == GetXClusterSafeTimeWithoutDdlQueue(ans)
            value == res.status = "ok" /\ res.has
            again == value /\ NotCaughtUp(res.value, t.initial_xcluster_safe_time_)
            done == \/ res.status = "ok" /\ ~res.has
                    \/ value /\ WaitCompletes(res.value, t.initial_xcluster_safe_time_)
        IN  TaskBecomes(i,
              [t EXCEPT
                 !.initial_xcluster_safe_time_ =
                     IF value THEN ThresholdAfterPoll(res.value, @) ELSE @,
                 !.scheduled =
                     IF again
                     THEN ScheduleNextStepWithDelay(Tail(t.scheduled), sWaitSafeTime, NoArg)
                     ELSE Tail(t.scheduled),
                 !.state = CASE res.status # "ok" -> "failed"
                             [] done -> "complete"
                             [] OTHER -> @])
    /\ UNCHANGED <<pending_add, singleVars>>

NextTwoTasks ==
    \/ \E i \in Tasks : TaskFirstStep(i)
    \/ \E i \in Tasks : TaskBootstrapCallback(i)
    \/ \E i \in Tasks : TaskAddTableToReplicationGroup(i)
    \/ \E i \in Tasks : TaskWaitForSetupUniverseReplicationToFinish(i)
    \/ \E i \in Tasks : TaskRefreshAndGetXClusterSafeTime(i)
    \/ \E i \in Tasks : TaskWaitForXClusterSafeTimeCaughtUp(i)

SpecTwoTasks == Init /\ [][NextTwoTasks]_vars

\* The entries of the pending-add list that name table t.
PendingOf(t) == {k \in DOMAIN pending_add : pending_add[k].table = t}

\* The request a task makes for its own table and its own bootstrap id.
OwnRequest(i) == [tables |-> <<i>>, ids |-> <<BootstrapId(i)>>]

\* Task i has, at most once, asked for its own table with its own bootstrap
\* id, and holds the checkpoint time of its own checkpoint.
OwnMutationOnly(i) ==
    /\ Len(tasks[i].requests) <= 1
    /\ \A k \in DOMAIN tasks[i].requests : tasks[i].requests[k] = OwnRequest(i)
    /\ tasks[i].added =>
          /\ tasks[i].requests = <<OwnRequest(i)>>
          /\ IF is_db_scoped_
             THEN tasks[i].bootstrap_time_ \in {FromMicros(m) : m \in Micros}
             ELSE tasks[i].bootstrap_time_ = tasks[i].result[1].time
          /\ ~is_special(tasks[i].bootstrap_time_)
          /\ tasks[i].initial_xcluster_safe_time_ # kInvalidHybridTimeValue =>
                tasks[i].initial_xcluster_safe_time_ >= tasks[i].bootstrap_time_

\* Both tasks are past AddTableToReplicationGroup: the list holds each table
\* once, with its own bootstrap id.
EachTableOnce ==
    (\A i \in Tasks : tasks[i].added) =>
        /\ Len(pending_add) = Cardinality(Tasks)
        /\ \A i \in Tasks :
              /\ Cardinality(PendingOf(i)) = 1
              /\ \A k \in PendingOf(i) : pending_add[k].id = <<BootstrapId(i)>>

\* A step of one task leaves the other's bootstrap_time_ and
\* initial_xcluster_safe_time_ as they were.
OtherTaskUntouched ==
    \A j \in Tasks :
        j # actor' =>
            /\ tasks'[j].bootstrap_time_ = tasks[j].bootstrap_time_
            /\ tasks'[j].initial_xcluster_safe_time_ = tasks[j].initial_xcluster_safe_time_

(***************************************************************************)
(* C18  Two tasks adding different tables to one replication group, their  *)
(* steps interleaved in any order and AlterUniverseReplication atomic:     *)
(* each calls AlterUniverseReplication at most once, with its own table    *)
(* id and bootstrap id only; once both are past                            *)
(* AddTableToReplicationGroup the pending-add list holds each of the two   *)
(* tables exactly once; no step of one task changes the other's            *)
(* bootstrap_time_ or initial_xcluster_safe_time_.                         *)
(***************************************************************************)
C18_TwoTasks ==
    /\ [](\A i \in Tasks : OwnMutationOnly(i))
    /\ []EachTableOnce
    /\ [][OtherTaskUntouched]_vars

\* The second task's mutation applied first, the first task's after it, and
\* the first task's threshold set while the second is still polling the setup.
C18_Witness ==
    /\ ~is_db_scoped_
    /\ tasks[1].added /\ tasks[2].added
    /\ Len(pending_add) = 2
    /\ pending_add[1].table = 2
    /\ pending_add[2].table = 1
    /\ tasks[1].bootstrap_time_ # tasks[2].bootstrap_time_
    /\ tasks[1].initial_xcluster_safe_time_ # kInvalidHybridTimeValue
    /\ tasks[2].initial_xcluster_safe_time_ = kInvalidHybridTimeValue
    /\ tasks[2].scheduled # <<>>
    /\ Head(tasks[2].scheduled).step = sWaitSetup
    /\ actor = 1

=============================================================================
